---- MODULE Spec2Model ----
(***************************************************************************)
(* Zeus backtester: entry gate engine (entry_engine.py), exit monitor      *)
(* (exit_engine.py), orchestrator loop (runner.py) and the value types of  *)
(* models.py.                                                              *)
(*                                                                         *)
(* Units.  Prices are whole currency units.  Money (credit, loss, pnl,     *)
(* equity) is in units of 0.00001 dollar (1.0 is 100000).  Range           *)
(* ranks are in tenths (0.3 is 3).  ADX and RSI are whole                  *)
(* points.  A timestamp is day * MinutesPerDay + minute-of-day, where day  *)
(* 0 is Monday 2024-01-01 (ISO week 1 of ISO year 2024).                   *)
(***************************************************************************)
EXTENDS Integers, Sequences, FiniteSets, TLC

VARIABLES
    params,          \* StrategyParams shared by the engines of one run
    blackout_dates,  \* TradeEntryEngine.blackout_dates (set of days)
    trade_counter,   \* TradeEntryEngine._trade_counter
    entered_weeks,   \* TradeEntryEngine._entered_weeks
    pc,              \* position of BacktestRunner.run: "loop", "returned", "raised"
    df_len,          \* len(self.df): the number of rows of the price series
    nbars,           \* number of rows of df iterated so far
    last_ts,         \* timestamp of the last row iterated (df.index[-1] at the end)
    open_trade,      \* run's local open_trade: <<>> is None, <<t>> an open Trade
    trades,          \* run's local list trades
    rejected,        \* run's local list rejected
    summary,         \* the BacktestResult returned by run (<<>> before it returns)
    last,            \* the most recent engine call: its inputs and its outcome
    runs             \* BacktestRunner instances running side by side, by name

vars == <<params, blackout_dates, trade_counter, entered_weeks, pc, df_len, nbars,
          last_ts, open_trade, trades, rejected, summary, last, runs>>

----------------------------------------------------------------------------
(* Sentinels and calendar                                                  *)

\* float("nan") / a column the row does not carry (row.get gives None): pd.isna is true of both
NaN == -2
\* Python None in an Optional[float] / Optional[datetime] field
None == -1

MinutesPerDay == 1440
DaysPerWeek == 7
\* ISO years 2024 and 2025 both have 52 weeks; the days used lie in those two years
WeeksPerIsoYear == 52
\* datetime.weekday() of a Friday (Monday = 0)
Friday == 4
\* _next_friday normalises the expiry to 16:00
ExpiryHour == 16

DateOf(ts) == ts \div MinutesPerDay
TimeOf(ts) == ts % MinutesPerDay
Weekday(day) == day % DaysPerWeek
\* timestamp.isocalendar()[1]: the ISO week NUMBER, without the ISO year
IsoWeek(day) == ((day \div DaysPerWeek) % WeeksPerIsoYear) + 1
At(day, minute) == day * MinutesPerDay + minute

\* Mutant: the day difference is not taken modulo the week
NextFridayMutNoWrap(ts) ==
    At(DateOf(ts) + (Friday - Weekday(DateOf(ts))), ExpiryHour * 60)
\* _next_friday(dt): the next Friday >= dt, at 16:00
NextFriday(ts) ==
    LET wd == Weekday(DateOf(ts))
        d0 == (Friday - wd + DaysPerWeek) % DaysPerWeek
        days_ahead == IF d0 = 0 /\ wd # Friday THEN DaysPerWeek ELSE d0
    IN  At(DateOf(ts) + days_ahead, ExpiryHour * 60)

----------------------------------------------------------------------------
(* models.py                                                               *)

TradeResultMembers == {"WIN", "LOSS", "OPEN"}
ExitReasonMembers == {"BREACH_SHORT_CALL", "BREACH_SHORT_PUT", "EXPIRY_WORTHLESS"}
RejectionReasonMembers ==
    {"OUTSIDE_SESSION", "ADX_TOO_HIGH", "RSI_OUT_OF_RANGE", "PRICE_RANGE_RANK_TOO_LOW",
     "WITHIN_BLACKOUT_BUFFER", "INDICATORS_NOT_READY", "DUPLICATE_WEEK"}

\* StrategyParams(): the dataclass defaults
DefaultParams ==
    [ema_period |-> 20, atr_period |-> 14, atr_multiplier |-> 2, adx_period |-> 14,
     adx_threshold |-> 25, rsi_low |-> 30, rsi_high |-> 70,
     price_range_rank_min |-> 3, blackout_buffer_days |-> 3,
     credit_received |-> 50000, max_loss |-> 250000,
     session_open_hour |-> 9, session_open_minute |-> 30,
     session_close_hour |-> 16, session_close_minute |-> 0]

\* The fields the Trade dataclass declares: required ones, and the defaults of the others
TradeRequiredFields ==
    {"trade_id", "entry_timestamp", "expiry_date", "upper_strike", "lower_strike",
     "credit_received", "result", "exit_reason"}
TradeDefaults ==
    [exit_timestamp |-> None, loss_realised |-> 0, pnl |-> 0, entry_adx |-> 0,
     entry_rsi |-> 0, entry_price_range_rank |-> 0, entry_ema |-> 0]
TradeFieldNames == TradeRequiredFields \cup DOMAIN TradeDefaults

\* An outcome that is an exception leaving the callee
Raise(exc) == [kind |-> "raise", exc |-> exc]
IsRaise(r) == r.kind = "raise"

\* Mutant: the order of rsi_low and rsi_high is not validated
StrategyParamsInitMutNoOrder(kw) ==
    IF \/ kw.ema_period < 1 \/ kw.atr_period < 1 \/ kw.atr_multiplier <= 0
       \/ kw.adx_period < 1
       \/ ~(0 <= kw.rsi_low /\ kw.rsi_low <= 100)
       \/ ~(0 <= kw.rsi_high /\ kw.rsi_high <= 100)
       \/ ~(0 <= kw.price_range_rank_min /\ kw.price_range_rank_min <= 10)
       \/ kw.blackout_buffer_days < 0 \/ kw.credit_received < 0 \/ kw.max_loss < 0
    THEN Raise("ValueError")
    ELSE [kind |-> "StrategyParams", value |-> kw]
\* StrategyParams(**kw): the generated __init__ stores the fields, then __post_init__
\* raises ValueError at the first violated condition
StrategyParamsInit(kw) ==
    IF kw.ema_period < 1 THEN Raise("ValueError")
    ELSE IF kw.atr_period < 1 THEN Raise("ValueError")
    ELSE IF kw.atr_multiplier <= 0 THEN Raise("ValueError")
    ELSE IF kw.adx_period < 1 THEN Raise("ValueError")
    ELSE IF ~(0 <= kw.rsi_low /\ kw.rsi_low <= 100) THEN Raise("ValueError")
    ELSE IF ~(0 <= kw.rsi_high /\ kw.rsi_high <= 100) THEN Raise("ValueError")
    ELSE IF kw.rsi_low > kw.rsi_high THEN Raise("ValueError")
    ELSE IF ~(0 <= kw.price_range_rank_min /\ kw.price_range_rank_min <= 10)
         THEN Raise("ValueError")
    ELSE IF kw.blackout_buffer_days < 0 THEN Raise("ValueError")
    ELSE IF kw.credit_received < 0 THEN Raise("ValueError")
    ELSE IF kw.max_loss < 0 THEN Raise("ValueError")
    ELSE [kind |-> "StrategyParams", value |-> kw]

\* Trade(**kw): the generated __init__ takes the declared fields only, and needs
\* the required ones; any other keyword is a TypeError.
TradeInit(kw) ==
    IF DOMAIN kw \subseteq TradeFieldNames /\ TradeRequiredFields \subseteq DOMAIN kw
    THEN [kind |-> "Trade",
          trade |-> [f \in TradeFieldNames |->
                        IF f \in DOMAIN kw THEN kw[f] ELSE TradeDefaults[f]]]
    ELSE Raise("TypeError")

\* Mutant: the diagnostic values are not stored
RejectedTradeMutNoDiagnostics(ts, reason, detail, adx, rsi, prr) ==
    [kind |-> "RejectedTrade", timestamp |-> ts, reason |-> reason, detail |-> detail,
     adx |-> None, rsi |-> None, price_range_rank |-> None]
\* RejectedTrade(timestamp, reason, detail, adx, rsi, price_range_rank)
RejectedTrade(ts, reason, detail, adx, rsi, prr) ==
    [kind |-> "RejectedTrade", timestamp |-> ts, reason |-> reason, detail |-> detail,
     adx |-> adx, rsi |-> rsi, price_range_rank |-> prr]

----------------------------------------------------------------------------
(* entry_engine.py: TradeEntryEngine                                       *)

\* The columns evaluate_bar requires of a row
RequiredCols ==
    {"EMA", "ATR", "ADX", "RSI", "KC_Upper", "KC_Lower", "Price_Range_Rank",
     "PRR_upside", "PRR_downside"}

\* ADX at or below which the regime router selects the iron condor
CondorAdxMax == 20
\* RSI at or above which the router selects the put credit spread
PutRsiMin == 50

\* __init__: self._session_open, self._session_close (minutes of the day)
SessionOpen(p) == p.session_open_hour * 60 + p.session_open_minute
SessionClose(p) == p.session_close_hour * 60 + p.session_close_minute

\* Mutant: the two side-specific ranks are not among the required columns
IndicatorsNotReadyMutNoSideRanks(row) ==
    \E c \in RequiredCols \ {"PRR_upside", "PRR_downside"} : row[c] = NaN
\* Check 1: any(pd.isna(row.get(col)) for col in required)
IndicatorsNotReady(row) == \E c \in RequiredCols : row[c] = NaN

\* Check 2: not (session_open <= bar_time <= session_close)
OutsideSession(p, ts) == ~(SessionOpen(p) <= TimeOf(ts) /\ TimeOf(ts) <= SessionClose(p))

\* Mutant: the timestamp, not its date, is looked up in the set of dates
InBlackoutMutTimestamp(blackout, ts) == ts \in blackout
\* Check 3: bar_date in self.blackout_dates
InBlackout(blackout, ts) == DateOf(ts) \in blackout

\* Mutant: an ADX equal to the threshold is rejected too
AdxTooHighMutInclusive(p, row) == row.ADX >= p.adx_threshold
\* Check 4: adx_val > p.adx_threshold
AdxTooHigh(p, row) == row.ADX > p.adx_threshold

\* Check 5: not (p.rsi_low <= rsi_val <= p.rsi_high)
RsiOutOfRange(p, row) == ~(p.rsi_low <= row.RSI /\ row.RSI <= p.rsi_high)

\* Mutant: the condor bound is exclusive
RegimeStructureMutStrict(adx, rsi) ==
    IF adx < CondorAdxMax THEN "iron_condor"
    ELSE IF rsi >= PutRsiMin THEN "put_credit_spread"
    ELSE "call_credit_spread"
\* Check 6, regime selection: the structure the if / elif / else assigns
RegimeStructure(adx, rsi) ==
    IF adx <= CondorAdxMax THEN "iron_condor"
    ELSE IF rsi >= PutRsiMin THEN "put_credit_spread"
    ELSE "call_credit_spread"

\* Check 6, directional room: the condition under which the selected branch rejects
RangeRankTooLow(p, structure, row) ==
    CASE structure = "iron_condor" ->
            row.PRR_upside < p.price_range_rank_min
            \/ row.PRR_downside < p.price_range_rank_min
      [] structure = "put_credit_spread" -> row.PRR_downside < p.price_range_rank_min
      [] OTHER -> row.PRR_upside < p.price_range_rank_min

\* The label that opens the detail text of a range-rank rejection
RegimeLabel(structure) ==
    CASE structure = "iron_condor" -> "Iron condor"
      [] structure = "put_credit_spread" -> "Put spread"
      [] OTHER -> "Call spread"

\* Mutant: the guard looks up the calendar day, not the ISO week
DuplicateWeekMutDay(weeks, ts) == DateOf(ts) \in weeks
\* Check 7: iso_week in self._entered_weeks
DuplicateWeek(weeks, ts) == IsoWeek(DateOf(ts)) \in weeks

\* The keyword arguments evaluate_bar passes to Trade(...) once every gate passed
EntryTradeKeywords(p, counter, row, ts) ==
    [trade_id |-> counter,
     entry_timestamp |-> ts,
     expiry_date |-> NextFriday(ts),
     upper_strike |-> row.KC_Upper,
     lower_strike |-> row.KC_Lower,
     credit_received |-> p.credit_received,
     result |-> "OPEN",
     exit_reason |-> "EXPIRY_WORTHLESS",
     entry_adx |-> row.ADX,
     entry_rsi |-> row.RSI,
     entry_price_range_rank |-> row.Price_Range_Rank,
     entry_ema |-> row.EMA,
     structure |-> RegimeStructure(row.ADX, row.RSI),
     prr_upside |-> row.PRR_upside,
     prr_downside |-> row.PRR_downside]

\* What one evaluate_bar call leaves: its outcome and the engine's two fields
EngineStep(result, counter, weeks) ==
    [result |-> result, trade_counter |-> counter, entered_weeks |-> weeks]

\* TradeEntryEngine.evaluate_bar(row, timestamp) on an engine whose fields are
\* (p, blackout, counter, weeks)
EvaluateBar(p, blackout, counter, weeks, row, ts) ==
    IF IndicatorsNotReady(row) THEN
        EngineStep(RejectedTrade(ts, "INDICATORS_NOT_READY", "NaN", None, None, None),
                   counter, weeks)
    ELSE IF OutsideSession(p, ts) THEN
        EngineStep(RejectedTrade(ts, "OUTSIDE_SESSION", "Bar time", None, None, None),
                   counter, weeks)
    ELSE IF InBlackout(blackout, ts) THEN
        EngineStep(RejectedTrade(ts, "WITHIN_BLACKOUT_BUFFER", "Date",
                                 row.ADX, row.RSI, row.Price_Range_Rank),
                   counter, weeks)
    ELSE IF AdxTooHigh(p, row) THEN
        EngineStep(RejectedTrade(ts, "ADX_TOO_HIGH", "ADX",
                                 row.ADX, row.RSI, row.Price_Range_Rank),
                   counter, weeks)
    ELSE IF RsiOutOfRange(p, row) THEN
        EngineStep(RejectedTrade(ts, "RSI_OUT_OF_RANGE", "RSI",
                                 row.ADX, row.RSI, row.Price_Range_Rank),
                   counter, weeks)
    ELSE IF RangeRankTooLow(p, RegimeStructure(row.ADX, row.RSI), row) THEN
        EngineStep(RejectedTrade(ts, "PRICE_RANGE_RANK_TOO_LOW",
                                 RegimeLabel(RegimeStructure(row.ADX, row.RSI)),
                                 row.ADX, row.RSI, row.Price_Range_Rank),
                   counter, weeks)
    ELSE IF DuplicateWeek(weeks, ts) THEN
        EngineStep(RejectedTrade(ts, "DUPLICATE_WEEK", "Already entered",
                                 row.ADX, row.RSI, row.Price_Range_Rank),
                   counter, weeks)
    ELSE
        \* the counter and the week set are updated before Trade(...) is called
        EngineStep(TradeInit(EntryTradeKeywords(p, counter + 1, row, ts)),
                   counter + 1, weeks \cup {IsoWeek(DateOf(ts))})

----------------------------------------------------------------------------
(* exit_engine.py: TradeExitEngine                                         *)

NoExit == [kind |-> "None"]

\* dataclasses.replace(trade, **changes): Trade(**fields) with the declared fields
\* of trade overridden by changes; an attribute that is no declared field is not copied
Replace(trade, changes) ==
    TradeInit([f \in TradeFieldNames |->
                  IF f \in DOMAIN changes THEN changes[f] ELSE trade[f]])

\* Mutant: every close, expiry included, is tagged LOSS and gives the credit back
CloseMutExpiryLoss(p, trade, exit_ts, reason) ==
    LET is_loss == reason \in {"BREACH_SHORT_CALL", "BREACH_SHORT_PUT"}
    IN  IF is_loss /\ "wing_width" \notin DOMAIN p THEN Raise("AttributeError")
        ELSE Replace(trade, [result |-> "LOSS",
                             exit_reason |-> reason,
                             exit_timestamp |-> exit_ts,
                             loss_realised |-> trade.credit_received,
                             pnl |-> 0])
\* TradeExitEngine._close(trade, exit_ts, reason)
Close(p, trade, exit_ts, reason) ==
    LET is_loss == reason \in {"BREACH_SHORT_CALL", "BREACH_SHORT_PUT"}
    IN  IF is_loss /\ "wing_width" \notin DOMAIN p THEN
            \* self.params.wing_width: StrategyParams declares no such field
            Raise("AttributeError")
        ELSE
            LET loss_realised == IF is_loss THEN p.wing_width - trade.credit_received ELSE 0
                pnl == trade.credit_received - loss_realised
            IN  Replace(trade, [result |-> IF is_loss THEN "LOSS" ELSE "WIN",
                                exit_reason |-> reason,
                                exit_timestamp |-> exit_ts,
                                loss_realised |-> loss_realised,
                                pnl |-> pnl])

\* The breach tests of resolve for a structure: which sides are looked at
ChecksCall(structure) == structure # "put_credit_spread"
\* Mutant: the lower strike is tested whatever the structure
ChecksPutMutAlways(structure) == TRUE
ChecksPut(structure) == structure # "call_credit_spread"

\* TradeExitEngine.resolve(trade, row, timestamp)
Resolve(p, trade, row, ts) ==
    IF "structure" \notin DOMAIN trade THEN
        \* trade.structure on a value that has no such attribute
        Raise("AttributeError")
    ELSE IF ChecksCall(trade.structure) /\ row.High > trade.upper_strike THEN
        Close(p, trade, ts, "BREACH_SHORT_CALL")
    ELSE IF ChecksPut(trade.structure) /\ row.Low < trade.lower_strike THEN
        Close(p, trade, ts, "BREACH_SHORT_PUT")
    ELSE IF DateOf(ts) >= DateOf(trade.expiry_date) THEN
        Close(p, trade, ts, "EXPIRY_WORTHLESS")
    ELSE NoExit

----------------------------------------------------------------------------
(* engine.py: AnalyticsEngine                                              *)

\* The money units in 0.0001 dollar, the resolution round(x, 4) keeps
Round4Step == 10

Abs(x) == IF x < 0 THEN -x ELSE x

\* The multiple of step nearest to x, a tie going to the even multiple (round())
RoundTo(x, step) ==
    LET q == x \div step
        r == x % step
    IN  IF 2 * r > step \/ (2 * r = step /\ q % 2 = 1) THEN (q + 1) * step ELSE q * step

\* round(x, 4) of an amount of money
Round4(x) == RoundTo(x, Round4Step)

RECURSIVE SumPnl(_)
\* running_pnl after the loop over ts
SumPnl(ts) == IF ts = <<>> THEN 0 ELSE SumPnl(SubSeq(ts, 1, Len(ts) - 1)) + ts[Len(ts)].pnl

\* Mutant: each point is the trade's own P&L, not the running total
EquityCurveMutPerTrade(ts) == [i \in 1..Len(ts) |-> Round4(ts[i].pnl)]
\* equity[i]: round(running_pnl, 4) after the i-th trade
EquityCurve(ts) == [i \in 1..Len(ts) |-> Round4(SumPnl(SubSeq(ts, 1, i)))]

RECURSIVE DrawdownFrom(_, _, _)
\* the loop of _max_drawdown over what is left of the series, given peak and max_dd
DrawdownFrom(rest, peak, max_dd) ==
    IF rest = <<>> THEN max_dd
    ELSE LET val == Head(rest)
             peak2 == IF val > peak THEN val ELSE peak
             drawdown == peak2 - val
         IN  DrawdownFrom(Tail(rest), peak2, IF drawdown > max_dd THEN drawdown ELSE max_dd)

\* Mutant: the first equity point, not the implicit zero, is the first peak
MaxDrawdownMutNoZeroStart(equity) ==
    IF equity = <<>> THEN 0 ELSE DrawdownFrom(Tail(equity), Head(equity), 0)
\* AnalyticsEngine._max_drawdown(equity)
MaxDrawdown(equity) == IF equity = <<>> THEN 0 ELSE DrawdownFrom(equity, 0, 0)

\* round(wins / total * 100, 2) in hundredths of a percent; 0 when total is 0
WinRate(wins, total) ==
    IF total = 0 THEN 0 ELSE RoundTo(wins * 100 * 100, total) \div total

\* Mutant: a trade counts as a win when its P&L is positive
WinsMutByPnl(ts) == Cardinality({i \in 1..Len(ts) : ts[i].pnl > 0})
\* wins = sum(1 for t in trades if t.result == TradeResult.WIN)
Wins(ts) == Cardinality({i \in 1..Len(ts) : ts[i].result = "WIN"})

\* AnalyticsEngine.summarise(BacktestResult(trades, rejected_trades))
Summarise(ts, rej) ==
    LET total == Len(ts)
        wins == Wins(ts)
    IN  [trades |-> ts, rejected_trades |-> rej,
         equity_curve |-> EquityCurve(ts),
         timestamps |-> [i \in 1..Len(ts) |-> ts[i].exit_timestamp],
         total_trades |-> total, total_wins |-> wins, total_losses |-> total - wins,
         total_pnl |-> Round4(SumPnl(ts)),
         max_drawdown |-> Round4(MaxDrawdown(EquityCurve(ts))),
         win_rate |-> WinRate(wins, total)]

----------------------------------------------------------------------------
(* indicators.py: TechnicalIndicators                                      *)

Max2(a, b) == IF a >= b THEN a ELSE b

\* tr at row i: the row-wise max(axis=1) of High - Low, |High - prev_close| and
\* |Low - prev_close|, which skips the entries that are NaN: on row 1 prev_close
\* (Close.shift(1)) is NaN and High - Low alone is left
TrueRange(bars, i) ==
    IF i = 1 THEN bars[1].High - bars[1].Low
    ELSE Max2(bars[i].High - bars[i].Low,
              Max2(Abs(bars[i].High - bars[i - 1].Close),
                   Abs(bars[i].Low - bars[i - 1].Close)))

RECURSIVE Pow(_, _)
Pow(b, n) == IF n = 0 THEN 1 ELSE b * Pow(b, n - 1)

\* The denominator over which row t of a series smoothed with the span is held
EwmDen(span, t) == Pow(span + 1, t - 1)

RECURSIVE EwmNum(_, _, _)
\* xs.ewm(span=span, adjust=False).mean() at row t, as a numerator over
\* EwmDen(span, t): y_1 = x_1, y_t = (1 - alpha) y_(t-1) + alpha x_t, alpha = 2 / (span + 1)
EwmNum(xs, span, t) ==
    IF t = 1 THEN xs[1]
    ELSE (span - 1) * EwmNum(xs, span, t - 1) + 2 * xs[t] * EwmDen(span, t - 1)

\* (EMA + sign * multiplier * ATR).round(0) at row t
KeltnerBand(bars, p, sign, t) ==
    LET ema == EwmNum([i \in 1..Len(bars) |-> bars[i].Close], p.ema_period, t)
        atr == EwmNum([i \in 1..Len(bars) |-> TrueRange(bars, i)], p.atr_period, t)
        de == EwmDen(p.ema_period, t)
        da == EwmDen(p.atr_period, t)
    IN  RoundTo(ema * da + sign * p.atr_multiplier * atr * de, de * da) \div (de * da)

\* The Keltner columns compute_all attaches to the bars, with the true range series
\* (the local tr of _add_atr) they are smoothed from
ComputeAll(bars, p) ==
    [kind |-> "DataFrame",
     tr |-> [t \in 1..Len(bars) |-> TrueRange(bars, t)],
     KC_Upper |-> [t \in 1..Len(bars) |-> KeltnerBand(bars, p, 1, t)],
     KC_Lower |-> [t \in 1..Len(bars) |-> KeltnerBand(bars, p, -1, t)]]

\* The window of rolling(252) in the range-rank columns
RankWindow == 252

\* Mutant: a window with zero range ranks 0 instead of being undefined
RollingRankMutZeroOnFlat(xs, t) ==
    IF t < RankWindow THEN NaN
    ELSE LET w == {xs[j] : j \in (t - RankWindow + 1)..t}
             hi == CHOOSE v \in w : \A u \in w : u <= v
             lo == CHOOSE v \in w : \A u \in w : v <= u
         IN  IF hi = lo THEN 0 ELSE ((xs[t] - lo) * 10) \div (hi - lo)
\* (xs - xs.rolling(252).min()) / (rolling max - rolling min).replace(0, nan) at row
\* t, in tenths: the rolling values are NaN until the window holds 252 rows, and a
\* zero range is replaced by NaN
RollingRank(xs, t) ==
    IF t < RankWindow THEN NaN
    ELSE LET w == {xs[j] : j \in (t - RankWindow + 1)..t}
             hi == CHOOSE v \in w : \A u \in w : u <= v
             lo == CHOOSE v \in w : \A u \in w : v <= u
         IN  IF hi = lo THEN NaN ELSE ((xs[t] - lo) * 10) \div (hi - lo)

\* The three range-rank columns of row t, from the Close series and the two series of
\* distances between Close and the bands
RangeRankColumns(close, upside_distance, downside_distance, t) ==
    [Price_Range_Rank |-> RollingRank(close, t),
     PRR_upside |-> RollingRank(upside_distance, t),
     PRR_downside |-> RollingRank(downside_distance, t)]

----------------------------------------------------------------------------
(* blackout.py: BlackoutFilter                                             *)

\* Mutant: days_before is used on both sides of the event
RangesMutSymmetric(events, days_before, days_after) ==
    [i \in 1..Len(events) |->
        [start |-> events[i].Date - days_before, end |-> events[i].Date + days_before,
         reason |-> events[i].Reason]]
\* ranges: one (start, end, reason) per row of blackout_df, in row order
Ranges(events, days_before, days_after) ==
    [i \in 1..Len(events) |->
        [start |-> events[i].Date - days_before, end |-> events[i].Date + days_after,
         reason |-> events[i].Reason]]

\* Mutant: windows that share only an end day do not count as overlapping
OverlapsMutStrict(ri, rj) == ri.start < rj.end /\ rj.start < ri.end
\* s_i <= e_j and s_j <= e_i
Overlaps(ri, rj) == ri.start <= rj.end /\ rj.start <= ri.end

\* The text of an overlap warning: both reasons and both windows
OverlapWarning(ri, rj) ==
    [r_i |-> ri.reason, s_i |-> ri.start, e_i |-> ri.end,
     r_j |-> rj.reason, s_j |-> rj.start, e_j |-> rj.end]

RECURSIVE WarningsFrom(_, _, _)
\* The warnings the nested loops append from the pair (i, j) on
WarningsFrom(ranges, i, j) ==
    IF i > Len(ranges) THEN <<>>
    ELSE IF j > Len(ranges) THEN WarningsFrom(ranges, i + 1, i + 2)
    ELSE (IF Overlaps(ranges[i], ranges[j])
          THEN <<OverlapWarning(ranges[i], ranges[j])>> ELSE <<>>)
         \o WarningsFrom(ranges, i, j + 1)

\* Mutant: the end day of a window is not added
WindowDatesMutExclusiveEnd(start, end) == start..(end - 1)
\* The dates the while loop adds for one range: current from start while current <= end
WindowDates(start, end) == start..end

\* BlackoutFilter.expand(blackout_df, days_before, days_after)
Expand(events, days_before, days_after) ==
    IF events = <<>> THEN [kind |-> "tuple", blocked |-> {}, warnings |-> <<>>]
    ELSE LET ranges == Ranges(events, days_before, days_after)
         IN  [kind |-> "tuple",
              blocked |-> UNION {WindowDates(ranges[i].start, ranges[i].end) :
                                    i \in 1..Len(ranges)},
              warnings |-> WarningsFrom(ranges, 1, 2)]

----------------------------------------------------------------------------
(* Inputs                                                                  *)

\* Longest price series a run iterates
MaxBars == 3

\* StrategyParams instances: the defaults, and the defaults with a lower ADX ceiling
ParamChoices == {DefaultParams, [DefaultParams EXCEPT !.adx_threshold = 15]}

\* A row that passes every gate under the defaults (test_entry_engine._good_row, with
\* the two side-specific ranks the engine requires)
GoodRow ==
    [High |-> 5020, Low |-> 4980, EMA |-> 5000, ATR |-> 25, ADX |-> 20, RSI |-> 50,
     KC_Upper |-> 5050, KC_Lower |-> 4950, Price_Range_Rank |-> 4,
     PRR_upside |-> 3, PRR_downside |-> 3]

\* GoodRow with one required column undefined
NanRows == {[GoodRow EXCEPT ![c] = NaN] : c \in RequiredCols}

\* Rows offered to evaluate_bar called directly: every ADX and RSI around the gate and
\* router bounds with room on both sides, every pair of side ranks around the minimum
\* in each regime, and the rows with an undefined column
EntryRows ==
    {[GoodRow EXCEPT !.ADX = a, !.RSI = r] :
        a \in {15, 20, 21, 25, 26}, r \in {29, 30, 49, 50, 70, 71}}
    \cup {[GoodRow EXCEPT !.ADX = a, !.RSI = r, !.PRR_upside = u, !.PRR_downside = d] :
        a \in {20, 21}, r \in {49, 50}, u \in {2, 3}, d \in {2, 3}}
    \cup NanRows

\* Wed, Thu of ISO week 1 of 2024, Wed of week 2, Wed of week 1 of 2025; around the
\* session bounds on the first of them
EntryTimestamps ==
    {At(2, 569), At(2, 570), At(2, 960), At(2, 961), At(3, 600), At(9, 600), At(366, 600)}

\* Blocked-date sets handed to the engine
BlackoutChoices == {{}, {3}}

\* Rows of the price series of a run
RunRows ==
    {[GoodRow EXCEPT !.ADX = a, !.PRR_upside = u, !.High = h] :
        a \in {20, 26}, u \in {2, 3}, h \in {5020, 5060}}
    \cup {[GoodRow EXCEPT !.ADX = NaN]}

\* Index of the price series of a run: Wed, Thu, Fri of week 1, Wed of week 2 (in and
\* after the session)
RunTimestamps == {At(2, 600), At(3, 600), At(4, 600), At(9, 600), At(9, 1000)}

\* An open Trade as Trade(...) builds it: entered Wed 10:00, expiring Fri 16:00
OpenTradeValue ==
    TradeInit([trade_id |-> 1, entry_timestamp |-> At(2, 600),
               expiry_date |-> NextFriday(At(2, 600)),
               upper_strike |-> 5050, lower_strike |-> 4950,
               credit_received |-> 50000,
               result |-> "OPEN", exit_reason |-> "EXPIRY_WORTHLESS"]).trade

\* obj with the instance attribute structure set
WithStructure(trade, structure) ==
    [f \in DOMAIN trade \cup {"structure"} |->
        IF f = "structure" THEN structure ELSE trade[f]]

\* Trades offered to resolve called directly.  The Trade dataclass declares no
\* structure field, so a value it builds has no such attribute; resolve reads
\* trade.structure, so the inputs also hold that value with the attribute set by
\* the caller ("legacy" stands for any other string: resolve's fallback branch).
ExitStructures == {"iron_condor", "call_credit_spread", "put_credit_spread", "legacy"}
ExitTrades == {OpenTradeValue} \cup {WithStructure(OpenTradeValue, s) : s \in ExitStructures}

ExitRows ==
    {[GoodRow EXCEPT !.High = h, !.Low = l] :
        h \in {5040, 5050, 5051}, l \in {4949, 4950, 4960}}

\* Thu, Fri before and after 16:00, Sat of the week of OpenTradeValue
ExitTimestamps == {At(3, 600), At(4, 600), At(4, 1000), At(5, 600)}

\* Most trades in a list handed to summarise; longest series handed to _max_drawdown
MaxTrades == 3
MaxEquityLen == 4

\* OpenTradeValue closed with the given outcome tag, P&L and exit timestamp
ClosedTrade(result, pnl, exit_ts) ==
    [OpenTradeValue EXCEPT !.result = result, !.pnl = pnl, !.exit_timestamp = exit_ts,
                           !.loss_realised = IF pnl < 0 THEN -pnl ELSE 0]

\* Closed trades offered to summarise: P&Ls 1.0, -0.5, 0.3 (test_equity_curve_values)
\* and 0.00004, each under either outcome tag, each closing on its own bar
ClosedTrades ==
    {ClosedTrade(r, 100000, At(4, 960)) : r \in {"WIN", "LOSS"}}
    \cup {ClosedTrade(r, -50000, At(11, 600)) : r \in {"WIN", "LOSS"}}
    \cup {ClosedTrade(r, 30000, At(18, 960)) : r \in {"WIN", "LOSS"}}
    \cup {ClosedTrade(r, 4, At(25, 960)) : r \in {"WIN", "LOSS"}}

\* All sequences over S of length at most n
SeqsUpTo(S, n) == UNION {[1..k -> S] : k \in 0..n}

\* Equity points offered to _max_drawdown: -2.0 .. 4.0 (TestMaxDrawdown)
EquityPoints == {-200000, -100000, 100000, 200000, 300000, 400000}

\* Keyword sets offered to StrategyParams(...): the defaults with the lookbacks and
\* the multiplier, or the RSI bounds and the rank minimum, or the buffer and the two
\* amounts, set to values on both sides of each validated bound
ParamKeywords ==
    {[DefaultParams EXCEPT !.ema_period = e, !.atr_period = a, !.adx_period = d,
                           !.atr_multiplier = m] :
        e \in {0, 1}, a \in {0, 1}, d \in {0, 1}, m \in {-2, 0, 2}}
    \cup {[DefaultParams EXCEPT !.rsi_low = lo, !.rsi_high = hi,
                                !.price_range_rank_min = k] :
        lo \in {-5, 0, 30, 71, 100, 101}, hi \in {-5, 0, 70, 100, 101},
        k \in {-5, 0, 3, 10, 11}}
    \cup {[DefaultParams EXCEPT !.blackout_buffer_days = b, !.credit_received = c,
                                !.max_loss = l] :
        b \in {-5, 0, 3}, c \in {-5, 0, 50000}, l \in {-5, 0, 250000}}

\* Most rows of a blackout file, and the largest buffer on either side
MaxEvents == 3
MaxBuffer == 2

\* Rows of a blackout file: events on days 10, 12 and 20, under two reasons
BlackoutEvents ==
    {[Date |-> d, Reason |-> r] : d \in {10, 12, 20}, r \in {"Event A", "Event B"}}

\* Longest price series handed to compute_all
MaxPriceBars == 2

\* Rows of a price file as load_price_data returns them: any numbers in the High,
\* Low and Close columns (the loader checks that they are numeric, nothing else)
PriceBars ==
    {[High |-> h, Low |-> l, Close |-> c] :
        h \in {99, 101, 104}, l \in {98, 100, 103}, c \in {100, 102}}

\* Parameters handed to compute_all: the default lookbacks and lookbacks of 1, with a
\* multiplier of 1 and of 2
IndicatorParams ==
    {[DefaultParams EXCEPT !.ema_period = pr[1], !.atr_period = pr[2],
                           !.atr_multiplier = m] :
        pr \in {<<20, 14>>, <<1, 1>>}, m \in {1, 2}}

\* Lengths of the series handed to the range-rank columns: around the window size
WarmupLengths == {1, 2, RankWindow - 1, RankWindow, RankWindow + 1}

\* A series of n values that stays flat, rises by one a row, or falls by one a row
SeriesOf(shape, n) ==
    [i \in 1..n |-> CASE shape = "flat" -> 100
                      [] shape = "rising" -> 100 + i
                      [] OTHER -> 400 - i]
SeriesShapes == {"flat", "rising", "falling"}

----------------------------------------------------------------------------
(* State machine                                                           *)

NoCall ==
    [op |-> "none", row |-> GoodRow, ts |-> None, trade |-> <<>>, result |-> NoExit,
     counter_before |-> 0, weeks_before |-> {}]

\* BacktestRunner.__init__ (fresh engines) and the locals of run before its loop
Init ==
    /\ params \in ParamChoices
    /\ blackout_dates \in BlackoutChoices
    /\ trade_counter = 0
    /\ entered_weeks = {}
    /\ pc = "loop"
    /\ df_len \in 0..MaxBars
    /\ nbars = 0
    /\ last_ts = None
    /\ open_trade = <<>>
    /\ trades = <<>>
    /\ rejected = <<>>
    /\ summary = <<>>
    /\ last = NoCall
    /\ runs = <<>>

\* One iteration of the for loop of run on the next row of df
RunStep ==
    /\ pc = "loop"
    /\ nbars < df_len
    /\ \E ts \in RunTimestamps, row \in RunRows :
        /\ ts > last_ts
        /\ nbars' = nbars + 1
        /\ last_ts' = ts
        /\ summary' = summary
        /\ UNCHANGED <<runs, params, blackout_dates, df_len>>
        /\ IF open_trade # <<>> THEN
              LET closed == Resolve(params, open_trade[1], row, ts) IN
              /\ last' = [op |-> "resolve", row |-> row, ts |-> ts, trade |-> open_trade,
                          result |-> closed, counter_before |-> trade_counter,
                          weeks_before |-> entered_weeks]
              /\ pc' = IF IsRaise(closed) THEN "raised" ELSE "loop"
              /\ trades' = IF closed.kind = "Trade" THEN Append(trades, closed.trade)
                           ELSE trades
              /\ open_trade' = IF closed.kind = "Trade" THEN <<>> ELSE open_trade
              /\ UNCHANGED <<trade_counter, entered_weeks, rejected>>
           ELSE
              LET step == EvaluateBar(params, blackout_dates, trade_counter,
                                      entered_weeks, row, ts)
                  result == step.result
              IN
              /\ last' = [op |-> "evaluate_bar", row |-> row, ts |-> ts, trade |-> <<>>,
                          result |-> result, counter_before |-> trade_counter,
                          weeks_before |-> entered_weeks]
              /\ trade_counter' = step.trade_counter
              /\ entered_weeks' = step.entered_weeks
              /\ pc' = IF IsRaise(result) THEN "raised" ELSE "loop"
              /\ open_trade' = IF result.kind = "Trade" THEN <<result.trade>> ELSE open_trade
              /\ rejected' = IF result.kind = "RejectedTrade" THEN Append(rejected, result)
                             ELSE rejected
              /\ trades' = trades

\* The end of run once df is exhausted: the end-of-data close, then summarise
RunFinish ==
    /\ pc = "loop"
    /\ nbars = df_len
    /\ UNCHANGED <<runs, params, blackout_dates, df_len, trade_counter, entered_weeks, nbars,
                   last_ts, rejected, last>>
    /\ IF open_trade # <<>> THEN
          \* the arguments of replace(...) are evaluated first: ExitReason.EXPIRY
          IF "EXPIRY" \notin ExitReasonMembers THEN
              /\ pc' = "raised"
              /\ UNCHANGED <<open_trade, trades, summary>>
          ELSE
              LET closed == Replace(open_trade[1],
                                [result |-> "WIN", exit_reason |-> "EXPIRY",
                                 exit_timestamp |-> last_ts, loss_realised |-> 0,
                                 pnl |-> open_trade[1].credit_received]).trade
              IN
              /\ trades' = Append(trades, closed)
              /\ summary' = <<Summarise(Append(trades, closed), rejected)>>
              /\ pc' = "returned"
              /\ UNCHANGED open_trade
       ELSE
          /\ summary' = <<Summarise(trades, rejected)>>
          /\ pc' = "returned"
          /\ UNCHANGED <<open_trade, trades>>

Next == RunStep \/ RunFinish

\* BacktestRunner.run over every price series of at most MaxBars rows
Spec == Init /\ [][Next]_vars

\* evaluate_bar called directly on one engine, any number of times
CallEvaluateBar ==
    /\ \E ts \in EntryTimestamps, row \in EntryRows :
        LET step == EvaluateBar(params, blackout_dates, trade_counter, entered_weeks,
                                row, ts)
        IN
        /\ last' = [op |-> "evaluate_bar", row |-> row, ts |-> ts, trade |-> <<>>,
                    result |-> step.result, counter_before |-> trade_counter,
                    weeks_before |-> entered_weeks]
        /\ trade_counter' = step.trade_counter
        /\ entered_weeks' = step.entered_weeks
    /\ UNCHANGED <<runs, params, blackout_dates, df_len, pc, nbars, last_ts, open_trade, trades,
                   rejected, summary>>

NextEntry == CallEvaluateBar

\* A fresh engine; no price series is involved
InitEntry == Init /\ df_len = 0

SpecEntry == InitEntry /\ [][NextEntry]_vars

\* resolve called directly with an open trade and a bar
CallResolve ==
    /\ \E trade \in ExitTrades, row \in ExitRows, ts \in ExitTimestamps :
        last' = [op |-> "resolve", row |-> row, ts |-> ts, trade |-> <<trade>>,
                 result |-> Resolve(params, trade, row, ts),
                 counter_before |-> trade_counter, weeks_before |-> entered_weeks]
    /\ UNCHANGED <<runs, params, blackout_dates, df_len, trade_counter, entered_weeks, pc, nbars,
                   last_ts, open_trade, trades, rejected, summary>>

NextExit == CallResolve

InitExit == Init /\ df_len = 0

SpecExit == InitExit /\ [][NextExit]_vars

\* Entry timestamps offered to _next_friday: every day of two weeks, at several times
FridayInputs ==
    {At(d, m) : d \in 0..(2 * DaysPerWeek - 1),
                m \in {0, 570, 600, 959, 960, 961, 1000, 1439}}

\* _next_friday called on an entry timestamp
CallNextFriday ==
    /\ \E ts \in FridayInputs :
        last' = [op |-> "_next_friday", row |-> GoodRow, ts |-> ts, trade |-> <<>>,
                 result |-> [kind |-> "datetime", value |-> NextFriday(ts)],
                 counter_before |-> trade_counter, weeks_before |-> entered_weeks]
    /\ UNCHANGED <<runs, params, blackout_dates, df_len, trade_counter, entered_weeks, pc, nbars,
                   last_ts, open_trade, trades, rejected, summary>>

NextFridaySteps == CallNextFriday

SpecFriday == InitEntry /\ [][NextFridaySteps]_vars

\* Valid StrategyParams with the session closing at 16:00 (the default), 15:30, 13:00
ExpiryParams ==
    {DefaultParams,
     [DefaultParams EXCEPT !.session_close_hour = 15, !.session_close_minute = 30],
     [DefaultParams EXCEPT !.session_close_hour = 13]}

\* A fresh engine built on one of those params
InitExpiry ==
    /\ params \in ExpiryParams
    /\ blackout_dates = {}
    /\ trade_counter = 0
    /\ entered_weeks = {}
    /\ pc = "loop"
    /\ df_len = 0
    /\ nbars = 0
    /\ last_ts = None
    /\ open_trade = <<>>
    /\ trades = <<>>
    /\ rejected = <<>>
    /\ summary = <<>>
    /\ last = NoCall
    /\ runs = <<>>

\* _next_friday as the engine calls it for an entry, whatever the session window
SpecExpiry == InitExpiry /\ [][NextFridaySteps]_vars

\* summarise called on a fresh result holding a list of closed trades
CallSummarise ==
    /\ last.op = "none"
    /\ \E ts \in SeqsUpTo(ClosedTrades, MaxTrades) :
        /\ trades' = ts
        /\ summary' = <<Summarise(ts, <<>>)>>
        /\ last' = [op |-> "summarise", row |-> GoodRow, ts |-> None, trade |-> <<>>,
                    result |-> NoExit, counter_before |-> trade_counter,
                    weeks_before |-> entered_weeks]
    /\ UNCHANGED <<runs, params, blackout_dates, df_len, trade_counter, entered_weeks, pc, nbars,
                   last_ts, open_trade, rejected>>

\* _max_drawdown called on an equity series
CallMaxDrawdown ==
    /\ last.op = "none"
    /\ \E equity \in SeqsUpTo(EquityPoints, MaxEquityLen) :
        last' = [op |-> "_max_drawdown", row |-> GoodRow, ts |-> None, trade |-> <<>>,
                 equity |-> equity,
                 result |-> [kind |-> "float", value |-> MaxDrawdown(equity)],
                 counter_before |-> trade_counter, weeks_before |-> entered_weeks]
    /\ UNCHANGED <<runs, params, blackout_dates, df_len, trade_counter, entered_weeks, pc, nbars,
                   last_ts, open_trade, trades, rejected, summary>>

NextAnalytics == CallSummarise \/ CallMaxDrawdown

SpecAnalytics == InitEntry /\ [][NextAnalytics]_vars

\* StrategyParams(...) called with a set of keyword values
CallStrategyParams ==
    /\ last.op = "none"
    /\ \E kw \in ParamKeywords :
        last' = [op |-> "StrategyParams", row |-> GoodRow, ts |-> None, trade |-> <<>>,
                 kw |-> kw, result |-> StrategyParamsInit(kw),
                 counter_before |-> trade_counter, weeks_before |-> entered_weeks]
    /\ UNCHANGED <<runs, params, blackout_dates, df_len, trade_counter, entered_weeks, pc, nbars,
                   last_ts, open_trade, trades, rejected, summary>>

NextParams == CallStrategyParams

SpecParams == InitEntry /\ [][NextParams]_vars

\* expand called with a blackout file and the two buffers
CallExpand ==
    /\ last.op = "none"
    /\ \E events \in SeqsUpTo(BlackoutEvents, MaxEvents),
          days_before \in 0..MaxBuffer, days_after \in 0..MaxBuffer :
        last' = [op |-> "expand", row |-> GoodRow, ts |-> None, trade |-> <<>>,
                 events |-> events, days_before |-> days_before,
                 days_after |-> days_after,
                 result |-> Expand(events, days_before, days_after),
                 counter_before |-> trade_counter, weeks_before |-> entered_weeks]
    /\ UNCHANGED <<runs, params, blackout_dates, df_len, trade_counter, entered_weeks, pc, nbars,
                   last_ts, open_trade, trades, rejected, summary>>

NextBlackout == CallExpand

SpecBlackout == InitEntry /\ [][NextBlackout]_vars

\* compute_all called on a price series
CallComputeAll ==
    /\ last.op = "none"
    /\ \E bars \in SeqsUpTo(PriceBars, MaxPriceBars), p \in IndicatorParams :
        /\ bars # <<>>
        /\ last' = [op |-> "compute_all", row |-> GoodRow, ts |-> None, trade |-> <<>>,
                    bars |-> bars, p |-> p, result |-> ComputeAll(bars, p),
                    counter_before |-> trade_counter, weeks_before |-> entered_weeks]
    /\ UNCHANGED <<runs, params, blackout_dates, df_len, trade_counter, entered_weeks, pc, nbars,
                   last_ts, open_trade, trades, rejected, summary>>

NextIndicators == CallComputeAll

SpecIndicators == InitEntry /\ [][NextIndicators]_vars

\* Names of the runner instances running side by side
RunIds == {"A", "B"}

\* Longest price series of a run that runs beside another
MaxConcurrentBars == 2

\* Rows and index of those series: a row that passes every gate and one rejected for
\* its ADX; Wed and Thu of week 1, Wed of week 2
ConcurrentRows == {GoodRow, [GoodRow EXCEPT !.ADX = 26]}
ConcurrentTimestamps == {At(2, 600), At(3, 600), At(9, 600)}

\* The price series: (timestamp, row) pairs in strictly ascending index order
ConcurrentSeries ==
    {df \in SeqsUpTo(ConcurrentTimestamps \X ConcurrentRows, MaxConcurrentBars) :
        \A i \in 1..(Len(df) - 1) : df[i][1] < df[i + 1][1]}

\* BacktestRunner(df, params, blackout_dates) with its two fresh engines, and the
\* locals of its run before the loop
FreshRun(df) ==
    [df |-> df, nbars |-> 0, pc |-> "loop", trade_counter |-> 0, entered_weeks |-> {},
     open_trade |-> <<>>, trades |-> <<>>, rejected |-> <<>>]

\* Mutant: _entered_weeks is one set shared by every engine instance
EngineOfMutSharedWeeks(rs, r) ==
    [trade_counter |-> rs[r].trade_counter,
     entered_weeks |-> UNION {rs[q].entered_weeks : q \in DOMAIN rs}]
\* self._trade_counter and self._entered_weeks as the engine of run r reads them:
\* attributes of its own instance
EngineOf(rs, r) ==
    [trade_counter |-> rs[r].trade_counter, entered_weeks |-> rs[r].entered_weeks]

\* One step of run on the instance inst whose entry engine holds eng: the next
\* iteration of the loop, or the end of run once df is exhausted
RunnerStep(p, blackout, inst, eng) ==
    IF inst.nbars < Len(inst.df) THEN
        LET ts == inst.df[inst.nbars + 1][1]
            row == inst.df[inst.nbars + 1][2]
        IN  IF inst.open_trade # <<>> THEN
                LET closed == Resolve(p, inst.open_trade[1], row, ts)
                IN  [inst EXCEPT
                        !.nbars = @ + 1,
                        !.pc = IF IsRaise(closed) THEN "raised" ELSE "loop",
                        !.trades = IF closed.kind = "Trade" THEN Append(@, closed.trade)
                                   ELSE @,
                        !.open_trade = IF closed.kind = "Trade" THEN <<>> ELSE @]
            ELSE
                LET step == EvaluateBar(p, blackout, eng.trade_counter,
                                        eng.entered_weeks, row, ts)
                IN  [inst EXCEPT
                        !.nbars = @ + 1,
                        !.pc = IF IsRaise(step.result) THEN "raised" ELSE "loop",
                        !.trade_counter = step.trade_counter,
                        !.entered_weeks = step.entered_weeks,
                        !.open_trade = IF step.result.kind = "Trade"
                                       THEN <<step.result.trade>> ELSE @,
                        !.rejected = IF step.result.kind = "RejectedTrade"
                                     THEN Append(@, step.result) ELSE @]
    ELSE IF inst.open_trade # <<>> /\ "EXPIRY" \notin ExitReasonMembers THEN
        [inst EXCEPT !.pc = "raised"]
    ELSE
        [inst EXCEPT !.pc = "returned"]

\* Two runners built on the same params and blocked set, each over its own series
InitConcurrent ==
    /\ params \in ParamChoices
    /\ blackout_dates \in BlackoutChoices
    /\ trade_counter = 0
    /\ entered_weeks = {}
    /\ pc = "loop"
    /\ df_len = 0
    /\ nbars = 0
    /\ last_ts = None
    /\ open_trade = <<>>
    /\ trades = <<>>
    /\ rejected = <<>>
    /\ summary = <<>>
    /\ last = NoCall
    /\ runs \in [RunIds -> {FreshRun(df) : df \in ConcurrentSeries}]

\* The run of one of the instances takes its next step
StepOfRun ==
    /\ \E r \in RunIds :
        /\ runs[r].pc = "loop"
        /\ runs' = [runs EXCEPT
                        ![r] = RunnerStep(params, blackout_dates, runs[r], EngineOf(runs, r))]
    /\ UNCHANGED <<params, blackout_dates, df_len, trade_counter, entered_weeks, pc, nbars,
                   last_ts, open_trade, trades, rejected, summary, last>>

NextConcurrent == StepOfRun

SpecConcurrent == InitConcurrent /\ [][NextConcurrent]_vars

\* The last row of a price series gets its range-rank columns from the pipeline and
\* is then evaluated by a fresh engine
CallRankThenEvaluate ==
    /\ last.op = "none"
    /\ \E n \in WarmupLengths, sc \in SeriesShapes, su \in SeriesShapes,
          sd \in SeriesShapes, ts \in {At(2, 600), At(3, 600)} :
        LET close == SeriesOf(sc, n)
            cols == RangeRankColumns(close, SeriesOf(su, n), SeriesOf(sd, n), n)
            row == [GoodRow EXCEPT !.Price_Range_Rank = cols.Price_Range_Rank,
                                   !.PRR_upside = cols.PRR_upside,
                                   !.PRR_downside = cols.PRR_downside]
            step == EvaluateBar(params, blackout_dates, trade_counter, entered_weeks,
                                row, ts)
        IN
        /\ last' = [op |-> "evaluate_bar", row |-> row, ts |-> ts, trade |-> <<>>,
                    close |-> close, result |-> step.result,
                    counter_before |-> trade_counter, weeks_before |-> entered_weeks]
        /\ trade_counter' = step.trade_counter
        /\ entered_weeks' = step.entered_weeks
    /\ UNCHANGED <<runs, params, blackout_dates, df_len, pc, nbars, last_ts, open_trade,
                   trades, rejected, summary>>

NextWarmup == CallRankThenEvaluate

SpecWarmup == InitEntry /\ [][NextWarmup]_vars

\* Bars of two years: Tuesday to Thursday of ISO week 1 of 2024, the Wednesday of
\* week 2, and the Wednesday and Thursday of ISO week 1 of 2025
WeekTimestamps == {At(1, 600), At(2, 600), At(3, 600), At(9, 600), At(366, 600),
                   At(367, 600)}

\* A bar that passes every check, a trending one and one in a stretched market
WeekRows == {GoodRow, [GoodRow EXCEPT !.ADX = 36], [GoodRow EXCEPT !.RSI = 75]}

\* One engine is handed bars in ascending order, as the runner's loop does; the days on
\* which it allocated a trade id are kept beside the call
CallEvaluateInOrder ==
    /\ \E ts \in WeekTimestamps, row \in WeekRows :
        LET step == EvaluateBar(params, blackout_dates, trade_counter, entered_weeks,
                                row, ts)
            before == IF "entries" \in DOMAIN last THEN last.entries ELSE {}
        IN
        /\ last.op # "none" => ts > last.ts
        /\ last' = [op |-> "evaluate_bar", row |-> row, ts |-> ts, trade |-> <<>>,
                    result |-> step.result, counter_before |-> trade_counter,
                    weeks_before |-> entered_weeks, entries_before |-> before,
                    entries |-> IF step.trade_counter > trade_counter
                                THEN before \cup {DateOf(ts)} ELSE before]
        /\ trade_counter' = step.trade_counter
        /\ entered_weeks' = step.entered_weeks
    /\ UNCHANGED <<runs, params, blackout_dates, df_len, pc, nbars, last_ts, open_trade,
                   trades, rejected, summary>>

NextWeeks == CallEvaluateInOrder

SpecWeeks == InitEntry /\ [][NextWeeks]_vars

----------------------------------------------------------------------------
(* Claims                                                                  *)

\* The last call was evaluate_bar / resolve
Evaluated == last.op = "evaluate_bar"
Resolved == last.op = "resolve"

\* The seven checks of the entry gate as the specification words them, on the
\* inputs of the last evaluate_bar call
Fails1 == \E c \in RequiredCols : last.row[c] = NaN
Fails2 ==
    \/ TimeOf(last.ts) < params.session_open_hour * 60 + params.session_open_minute
    \/ TimeOf(last.ts) > params.session_close_hour * 60 + params.session_close_minute
Fails3 == (last.ts \div MinutesPerDay) \in blackout_dates
Fails4 == last.row.ADX > params.adx_threshold
Fails5 == last.row.RSI < params.rsi_low \/ last.row.RSI > params.rsi_high
UpsideLow == last.row.PRR_upside < params.price_range_rank_min
DownsideLow == last.row.PRR_downside < params.price_range_rank_min
Fails6 ==
    IF last.row.ADX <= 20 THEN UpsideLow \/ DownsideLow
    ELSE IF last.row.RSI >= 50 THEN DownsideLow
    ELSE UpsideLow
Fails7 == IsoWeek(last.ts \div MinutesPerDay) \in last.weeks_before
PassedChecks1To5 == ~Fails1 /\ ~Fails2 /\ ~Fails3 /\ ~Fails4 /\ ~Fails5

\* The reason of the first check, in the fixed order, that the bar fails ("" if none)
FirstFailedReason ==
    IF Fails1 THEN "INDICATORS_NOT_READY"
    ELSE IF Fails2 THEN "OUTSIDE_SESSION"
    ELSE IF Fails3 THEN "WITHIN_BLACKOUT_BUFFER"
    ELSE IF Fails4 THEN "ADX_TOO_HIGH"
    ELSE IF Fails5 THEN "RSI_OUT_OF_RANGE"
    ELSE IF Fails6 THEN "PRICE_RANGE_RANK_TOO_LOW"
    ELSE IF Fails7 THEN "DUPLICATE_WEEK"
    ELSE ""

IsRejection == last.result.kind = "RejectedTrade"
RejectedFor(reason) == IsRejection /\ last.result.reason = reason

\* C2: evaluate_bar rejects a bar exactly when it fails one of the seven checks, and
\* the reason is that of the first check, in the order readiness, session, blackout,
\* ADX, RSI, range rank, duplicate week, that the bar fails; a ready, in-session bar
\* on a blocked date is rejected with the blackout reason whatever its indicators.
C2_FirstFailureWins ==
    Evaluated =>
        /\ IsRejection <=> FirstFailedReason # ""
        /\ IsRejection => last.result.reason = FirstFailedReason
        /\ (~Fails1 /\ ~Fails2 /\ Fails3) => RejectedFor("WITHIN_BLACKOUT_BUFFER")

\* C2 witness: a blackout rejection of a bar whose ADX is also above the ceiling
C2_Witness ==
    Evaluated /\ RejectedFor("WITHIN_BLACKOUT_BUFFER") /\ Fails4

C5_PassingBarYieldsTrade ==
    (Evaluated /\ FirstFailedReason = "") =>
        /\ last.result.kind = "Trade"
        /\ last.result.trade.result = "OPEN"
        /\ last.result.trade.upper_strike = last.row.KC_Upper
        /\ last.result.trade.lower_strike = last.row.KC_Lower
        /\ last.result.trade.credit_received = params.credit_received
        /\ last.result.trade.entry_adx = last.row.ADX
        /\ last.result.trade.entry_rsi = last.row.RSI
        /\ last.result.trade.entry_price_range_rank = last.row.Price_Range_Rank
        /\ last.result.trade.entry_ema = last.row.EMA

\* C6: no normal-flow outcome is an exception: no engine call raises and run does
\* not end by raising.
C6_NoExceptions ==
    /\ pc # "raised"
    /\ ~IsRaise(last.result)

\* The inputs of the last resolve call
ResolvedTrade == last.trade[1]
BeforeExpiry == DateOf(last.ts) < DateOf(ResolvedTrade.expiry_date)
HighAbove == last.row.High > ResolvedTrade.upper_strike
LowBelow == last.row.Low < ResolvedTrade.lower_strike
StructureIs(s) == "structure" \in DOMAIN ResolvedTrade /\ ResolvedTrade.structure = s
ClosedFor(reason) ==
    last.result.kind = "Trade" /\ last.result.trade.exit_reason = reason

\* C7: the breach test is strict: a bar with High equal to the upper strike never
\* closes the trade as a call-side breach, a bar with Low equal to the lower strike
\* never as a put-side breach, and before the expiry date a bar that touches a
\* strike without passing either yields no exit.
C7_StrictBreach ==
    Resolved =>
        /\ last.row.High = ResolvedTrade.upper_strike => ~ClosedFor("BREACH_SHORT_CALL")
        /\ last.row.Low = ResolvedTrade.lower_strike => ~ClosedFor("BREACH_SHORT_PUT")
        /\ (/\ BeforeExpiry /\ ~HighAbove /\ ~LowBelow
            /\ (last.row.High = ResolvedTrade.upper_strike
                \/ last.row.Low = ResolvedTrade.lower_strike))
              => last.result = NoExit

\* C8: for an iron condor, a bar with High above the upper strike and Low below the
\* lower strike closes the trade with the call-side breach reason.
C8_CallSideFirst ==
    (Resolved /\ StructureIs("iron_condor") /\ HighAbove /\ LowBelow) =>
        ClosedFor("BREACH_SHORT_CALL")

RelevantBreach ==
    \/ HighAbove /\ ~StructureIs("put_credit_spread")
    \/ LowBelow /\ ~StructureIs("call_credit_spread")

\* C10: on a bar dated on or after the expiry date resolve always closes the trade:
\* as a WIN with the expiry reason, zero realised loss and P&L equal to the credit
\* when no relevant strike is breached, as a breach LOSS when one is.
C10_ExpiryCloses ==
    (Resolved /\ ~BeforeExpiry) =>
        /\ last.result.kind = "Trade"
        /\ ~RelevantBreach =>
              /\ last.result.trade.result = "WIN"
              /\ last.result.trade.exit_reason = "EXPIRY_WORTHLESS"
              /\ last.result.trade.loss_realised = 0
              /\ last.result.trade.pnl = ResolvedTrade.credit_received
        /\ RelevantBreach =>
              /\ last.result.trade.result = "LOSS"
              /\ last.result.trade.exit_reason \in {"BREACH_SHORT_CALL", "BREACH_SHORT_PUT"}

\* C11: resolve returns no exit exactly when the bar breaches no strike relevant to
\* the trade's structure and the bar's date is strictly before the expiry date.
C11_NoExitExactly ==
    Resolved => (last.result = NoExit <=> (~RelevantBreach /\ BeforeExpiry))

\* C12: on a breach the closed trade has result LOSS, realised loss equal to the
\* configured max_loss, and P&L equal to credit_received minus max_loss.
C12_BreachLoss ==
    (Resolved /\ RelevantBreach) =>
        /\ last.result.kind = "Trade"
        /\ last.result.trade.result = "LOSS"
        /\ last.result.trade.loss_realised = params.max_loss
        /\ last.result.trade.pnl = ResolvedTrade.credit_received - params.max_loss

\* The fields a close may change
ClosingFields == {"result", "exit_reason", "exit_timestamp", "loss_realised", "pnl"}

\* C13: closing a trade, by breach or by expiry, produces a Trade value that differs
\* from the open one only in result, exit reason, exit timestamp, realised loss and
\* P&L: every other attribute of the open trade, its structure included, is carried
\* over unchanged.
C13_CloseFrame ==
    (Resolved /\ (RelevantBreach \/ ~BeforeExpiry)) =>
        /\ last.result.kind = "Trade"
        /\ last.result.trade.result # "OPEN"
        /\ DOMAIN last.result.trade = DOMAIN ResolvedTrade
        /\ \A f \in DOMAIN ResolvedTrade \ ClosingFields :
              last.result.trade[f] = ResolvedTrade[f]

\* run has ended, by returning or by an exception
RunEnded == pc \in {"returned", "raised"}

\* C16: run processes every bar of the price series exactly once, in index order,
\* one engine evaluation per bar: when run ends every row has been iterated, each
\* iteration made the one call recorded for its bar, and that call is the exit
\* monitor iff a position was open at the start of the bar.
C16_EveryBarOnce ==
    /\ nbars <= df_len
    /\ RunEnded => nbars = df_len
    /\ nbars > 0 =>
          /\ last.ts = last_ts
          /\ last.op \in {"evaluate_bar", "resolve"}
          /\ last.op = "resolve" <=> last.trade # <<>>

\* C17: the trade counter always equals the number of trades emitted: a call that
\* returns a Trade raises it by exactly one and gives the trade that id, and a call
\* that returns no Trade (a rejection) leaves it unchanged.
C17_SequentialIds ==
    Evaluated =>
        /\ last.result.kind = "Trade" =>
              /\ trade_counter = last.counter_before + 1
              /\ last.result.trade.trade_id = trade_counter
        /\ last.result.kind # "Trade" => trade_counter = last.counter_before

\* The entry day and the expiry day of the last _next_friday call
FridayCalled == last.op = "_next_friday"
EntryDay == last.ts \div MinutesPerDay
ExpiryDay == last.result.value \div MinutesPerDay

\* C18: the expiry date is a Friday, on or after the entry date and fewer than 7 days
\* after it, and it is the entry date itself exactly when the entry date is a Friday.
C18_ExpiryIsNextFriday ==
    FridayCalled =>
        /\ ExpiryDay % 7 = 4
        /\ ExpiryDay >= EntryDay
        /\ ExpiryDay - EntryDay < 7
        /\ ExpiryDay = EntryDay <=> EntryDay % 7 = 4

\* C18 witness: an entry on a Saturday expires on the Friday six days later
C18_Witness ==
    FridayCalled /\ EntryDay % 7 = 5 /\ ExpiryDay = EntryDay + 6

\* The last rejection carries no value / the bar's value in each diagnostic field
NoDiagnostics ==
    /\ last.result.adx = None
    /\ last.result.rsi = None
    /\ last.result.price_range_rank = None
BarDiagnostics ==
    /\ last.result.adx = last.row.ADX
    /\ last.result.rsi = last.row.RSI
    /\ last.result.price_range_rank = last.row.Price_Range_Rank

C21_InclusiveBounds ==
    Evaluated =>
        /\ (TimeOf(last.ts) \in
                {params.session_open_hour * 60 + params.session_open_minute,
                 params.session_close_hour * 60 + params.session_close_minute})
              => ~RejectedFor("OUTSIDE_SESSION")
        /\ last.row.ADX = params.adx_threshold => ~RejectedFor("ADX_TOO_HIGH")
        /\ last.row.RSI \in {params.rsi_low, params.rsi_high}
              => ~RejectedFor("RSI_OUT_OF_RANGE")

\* C21 witness: a bar exactly at the session close with ADX equal to the threshold and
\* RSI equal to rsi_high, on a free date, gets past the session, ADX and RSI checks
C21_Witness ==
    /\ Evaluated /\ ~Fails1 /\ ~Fails3
    /\ TimeOf(last.ts) = params.session_close_hour * 60 + params.session_close_minute
    /\ last.row.ADX = params.adx_threshold
    /\ last.row.RSI = params.rsi_high
    /\ ~IsRejection

\* The last call was summarise; the result it filled in; the trades tagged WIN
Summarised == last.op = "summarise"
Summary == summary[1]
TaggedWin == {i \in 1..Len(trades) : trades[i].result = "WIN"}

\* The counts of summarise are the number of trades, the number tagged WIN and their
\* difference
CountsByTag ==
    /\ Summary.total_trades = Len(trades)
    /\ Summary.total_wins = Cardinality(TaggedWin)
    /\ Summary.total_losses = Summary.total_trades - Summary.total_wins
    /\ Summary.total_wins + Summary.total_losses = Summary.total_trades
    /\ Len(trades) = 0 => Summary.win_rate = 0

\* C22 as stated: total_trades is the number of closed trades, total_wins the number
\* tagged WIN, total_losses total minus wins, and win_rate is wins/total x 100 (in
\* hundredths of a percent: win_rate x total = wins x 10000), 0 with no trades.
C22_CountsAndExactWinRate ==
    Summarised =>
        /\ CountsByTag
        /\ Summary.win_rate * Len(trades) = Cardinality(TaggedWin) * 10000

\* C22 as amended: the counts as stated, and win_rate is wins/total x 100 rounded to
\* two decimal places (within half a hundredth of a percent of the quotient), 0 with
\* no trades.
C22_CountsAndRoundedWinRate ==
    Summarised =>
        /\ CountsByTag
        /\ 2 * Abs(Summary.win_rate * Len(trades) - Cardinality(TaggedWin) * 10000)
              <= Len(trades)

\* C22 witness: three trades, the only one tagged WIN having a negative P&L and a
\* loss-tagged one a positive P&L: one win, two losses, win rate 33.33
C22_Witness ==
    /\ Summarised /\ Len(trades) = 3
    /\ \E i \in 1..3 : trades[i].result = "WIN" /\ trades[i].pnl < 0
    /\ \E i \in 1..3 : trades[i].result = "LOSS" /\ trades[i].pnl > 0
    /\ Summary.total_wins = 1 /\ Summary.total_losses = 2 /\ Summary.win_rate = 3333

RECURSIVE PrefixPnl(_)
\* The sum of the P&Ls of the first i trades
PrefixPnl(i) == IF i = 0 THEN 0 ELSE PrefixPnl(i - 1) + trades[i].pnl

\* The parts of C23 other than the value of the equity points
CurveShape ==
    /\ Len(Summary.equity_curve) = Len(trades)
    /\ Len(Summary.timestamps) = Len(trades)
    /\ \A i \in 1..Len(trades) : Summary.timestamps[i] = trades[i].exit_timestamp
    /\ Len(trades) > 0 => Summary.total_pnl = Summary.equity_curve[Len(trades)]
    /\ Len(trades) = 0 =>
          /\ Summary.equity_curve = <<>>
          /\ Summary.total_trades = 0 /\ Summary.total_wins = 0
          /\ Summary.total_losses = 0 /\ Summary.total_pnl = 0
          /\ Summary.max_drawdown = 0 /\ Summary.win_rate = 0

\* C23 as stated: the equity curve has one point per closed trade, in closing order,
\* the i-th point being the sum of the first i P&Ls; the timestamp list holds the
\* trades' exit timestamps; total_pnl is the last equity point; with no trades the
\* curve is empty and every summary scalar is zero.
C23_EquityIsExactCumulativeSum ==
    Summarised =>
        /\ CurveShape
        /\ \A i \in 1..Len(trades) : Summary.equity_curve[i] = PrefixPnl(i)

\* C23 as amended: as stated, the i-th equity point being the sum of the first i P&Ls
\* rounded to four decimal places.
C23_EquityIsRoundedCumulativeSum ==
    Summarised =>
        /\ CurveShape
        /\ \A i \in 1..Len(trades) :
              /\ Summary.equity_curve[i] % 10 = 0
              /\ 2 * Abs(Summary.equity_curve[i] - PrefixPnl(i)) <= 10

\* C23 witness: P&Ls 1.0, -0.5, 0.3 give the curve 1.0, 0.5, 0.8, total P&L 0.8 and
\* max drawdown 0.5, with the three exit timestamps in order
C23_Witness ==
    /\ Summarised /\ Len(trades) = 3
    /\ trades[1].pnl = 100000 /\ trades[2].pnl = -50000 /\ trades[3].pnl = 30000
    /\ Summary.equity_curve = <<100000, 50000, 80000>>
    /\ Summary.timestamps = <<At(4, 960), At(11, 600), At(18, 960)>>
    /\ Summary.total_pnl = 80000 /\ Summary.max_drawdown = 50000

\* The last call was _max_drawdown; the series [0] + equity; its running maximum
DrawdownCalled == last.op = "_max_drawdown"
FullSeries == <<0>> \o last.equity
PeakAt(k) == CHOOSE v \in {FullSeries[j] : j \in 1..k} :
                \A j \in 1..k : FullSeries[j] <= v
Lowest == CHOOSE v \in {FullSeries[j] : j \in 1..Len(FullSeries)} :
                \A j \in 1..Len(FullSeries) : v <= FullSeries[j]

\* C24: _max_drawdown is the largest peak-minus-value over the positions of
\* [0] + equity, peak being the running maximum up to the position; it is never
\* negative, 0 for the empty series and for a series never below its running peak,
\* and for a series that never rises above zero it is the depth of the lowest point.
C24_MaxDrawdown ==
    DrawdownCalled =>
        /\ \A k \in 1..Len(FullSeries) : last.result.value >= PeakAt(k) - FullSeries[k]
        /\ \E k \in 1..Len(FullSeries) : last.result.value = PeakAt(k) - FullSeries[k]
        /\ last.result.value >= 0
        /\ last.equity = <<>> => last.result.value = 0
        /\ (\A k \in 1..Len(FullSeries) : FullSeries[k] = PeakAt(k))
              => last.result.value = 0
        /\ (\A i \in 1..Len(last.equity) : last.equity[i] <= 0)
              => last.result.value = -Lowest

\* C24 witness: the series 1.0, 3.0, 1.0, 2.0 has drawdown 2.0
C24_Witness ==
    /\ DrawdownCalled
    /\ last.equity = <<100000, 300000, 100000, 200000>>
    /\ last.result.value = 200000

\* The last call was the StrategyParams constructor
Constructed == last.op = "StrategyParams"

\* Some invariant the claim lists is violated by the record of field values v
ViolatesInvariant(v) ==
    \/ v.ema_period < 1 \/ v.atr_period < 1 \/ v.adx_period < 1
    \/ v.atr_multiplier <= 0
    \/ v.rsi_low < 0 \/ v.rsi_low > 100
    \/ v.rsi_high < 0 \/ v.rsi_high > 100
    \/ v.rsi_low > v.rsi_high
    \/ v.price_range_rank_min < 0 \/ v.price_range_rank_min > 10
    \/ v.blackout_buffer_days < 0
    \/ v.credit_received < 0
    \/ v.max_loss < 0

\* C25: constructing StrategyParams with any invariant violated raises ValueError and
\* yields no instance; every instance that exists satisfies all the invariants,
\* those the engines of a run hold included.
C25_InvalidParamsRejected ==
    /\ ~ViolatesInvariant(params)
    /\ Constructed =>
          /\ ViolatesInvariant(last.kw) => last.result = [kind |-> "raise", exc |-> "ValueError"]
          /\ last.result.kind = "StrategyParams" =>
                ~ViolatesInvariant(last.result.value) /\ last.result.value = last.kw

\* C25 witness: rsi_low 71 and rsi_high 70, each within [0, 100], with every other
\* field valid, is refused with ValueError
C25_Witness ==
    /\ Constructed
    /\ last.kw.rsi_low = 71 /\ last.kw.rsi_high = 70
    /\ last.kw.price_range_rank_min = 3
    /\ last.result = [kind |-> "raise", exc |-> "ValueError"]

\* The last call was expand; the window of its i-th event; its overlapping pairs
Expanded == last.op = "expand"
WindowStart(i) == last.events[i].Date - last.days_before
WindowEnd(i) == last.events[i].Date + last.days_after
InWindow(d, i) == WindowStart(i) <= d /\ d <= WindowEnd(i)
EventPairs == {pr \in (1..Len(last.events)) \X (1..Len(last.events)) : pr[1] < pr[2]}
OverlappingPairs ==
    {pr \in EventPairs :
        WindowStart(pr[1]) <= WindowEnd(pr[2]) /\ WindowStart(pr[2]) <= WindowEnd(pr[1])}
FullUnion ==
    /\ \A i \in 1..Len(last.events) : \A d \in WindowStart(i)..WindowEnd(i) :
          d \in last.result.blocked
    /\ \A d \in last.result.blocked : \E i \in 1..Len(last.events) : InWindow(d, i)

\* C26: for any event list and buffers >= 0 the blocked set is exactly the union of
\* the inclusive windows [date - days_before, date + days_after]: every date of every
\* window is in it and every date in it lies in some window; an empty list gives an
\* empty set and no warnings.
C26_BlockedIsUnion ==
    Expanded =>
        /\ FullUnion
        /\ last.events = <<>> => last.result.blocked = {} /\ last.result.warnings = <<>>

\* C26 witness: events on days 10 and 20 with 2 days before and 1 after block exactly
\* days 8..11 and 18..21
C26_Witness ==
    /\ Expanded /\ Len(last.events) = 2
    /\ last.events[1].Date = 10 /\ last.events[2].Date = 20
    /\ last.days_before = 2 /\ last.days_after = 1
    /\ last.result.blocked = (8..11) \cup (18..21)

\* The warning at position k names the reasons and windows of the pair pr
WarningNames(k, pr) ==
    /\ last.result.warnings[k].r_i = last.events[pr[1]].Reason
    /\ last.result.warnings[k].s_i = WindowStart(pr[1])
    /\ last.result.warnings[k].e_i = WindowEnd(pr[1])
    /\ last.result.warnings[k].r_j = last.events[pr[2]].Reason
    /\ last.result.warnings[k].s_j = WindowStart(pr[2])
    /\ last.result.warnings[k].e_j = WindowEnd(pr[2])

\* C27: expand emits one warning per unordered pair of events whose windows overlap
\* (start_i <= end_j and start_j <= end_i) and none for any other pair: as many
\* warnings as overlapping pairs, each naming an overlapping pair and each
\* overlapping pair named; so overlapping windows give at least one warning; and the
\* blocked set is the full union whatever the warnings.
C27_OneWarningPerOverlap ==
    Expanded =>
        /\ Len(last.result.warnings) = Cardinality(OverlappingPairs)
        /\ \A k \in 1..Len(last.result.warnings) :
              \E pr \in OverlappingPairs : WarningNames(k, pr)
        /\ \A pr \in OverlappingPairs :
              \E k \in 1..Len(last.result.warnings) : WarningNames(k, pr)
        /\ OverlappingPairs # {} => Len(last.result.warnings) >= 1
        /\ FullUnion

\* C27 witness: events on days 10, 12 and 20 with one day on each side: the first two
\* windows share day 11 only, the third is apart; one warning, and days 9..13 and
\* 19..21 blocked
C27_Witness ==
    /\ Expanded /\ Len(last.events) = 3
    /\ last.events[1].Date = 10 /\ last.events[2].Date = 12 /\ last.events[3].Date = 20
    /\ last.days_before = 1 /\ last.days_after = 1
    /\ Len(last.result.warnings) = 1
    /\ last.result.blocked = (9..13) \cup (19..21)

ZeroBuffer == Expanded /\ last.days_before = 0 /\ last.days_after = 0
EventDates == {last.events[i].Date : i \in 1..Len(last.events)}
SameDatePairs == {pr \in EventPairs : last.events[pr[1]].Date = last.events[pr[2]].Date}

\* C28 as stated: with both buffers 0 the blocked set is exactly the set of event
\* dates and there are no warnings, for every event list.
C28_ZeroBufferNoWarnings ==
    ZeroBuffer =>
        /\ last.result.blocked = EventDates
        /\ last.result.warnings = <<>>

\* C28 as amended: with both buffers 0 the blocked set is exactly the set of event
\* dates, for every event list; there is one warning per pair of events that share a
\* date, hence no warnings when the event dates are pairwise distinct.
C28_ZeroBufferWarnsSharedDates ==
    ZeroBuffer =>
        /\ last.result.blocked = EventDates
        /\ Len(last.result.warnings) = Cardinality(SameDatePairs)
        /\ SameDatePairs = {} => last.result.warnings = <<>>

\* C28 witness: with zero buffers, two events on day 10 and one on day 20 block
\* exactly days 10 and 20 and give the one warning of the pair sharing day 10
C28_Witness ==
    /\ ZeroBuffer /\ Len(last.events) = 3
    /\ last.events[1].Date = 10 /\ last.events[2].Date = 10 /\ last.events[3].Date = 20
    /\ last.result.blocked = {10, 20}
    /\ Len(last.result.warnings) = 1

\* The last call was compute_all
ComputedAll == last.op = "compute_all"

\* C30: for any multiplier > 0 and any input bars, on every row where both Keltner
\* bands are defined the upper band is at least the lower band.
C30_KeltnerOrdered ==
    ComputedAll =>
        (last.p.atr_multiplier > 0 =>
            \A t \in 1..Len(last.bars) : last.result.KC_Upper[t] >= last.result.KC_Lower[t])

RECURSIVE Alone(_, _)
\* The instance of a run executed alone over df, after n of its steps (a run that
\* has ended takes no further step)
Alone(df, n) ==
    IF n = 0 THEN FreshRun(df)
    ELSE LET prev == Alone(df, n - 1)
         IN  IF prev.pc # "loop" THEN prev
             ELSE RunnerStep(params, blackout_dates, prev,
                             [trade_counter |-> prev.trade_counter,
                              entered_weeks |-> prev.entered_weeks])

C31_RejectionLogComplete ==
    [][nbars' = nbars + 1 =>
          \/ open_trade # <<>>
          \/ /\ last'.result.kind = "Trade"
             /\ open_trade' = <<last'.result.trade>>
             /\ rejected' = rejected
          \/ /\ last'.result.kind = "RejectedTrade"
             /\ last'.result.timestamp = last_ts'
             /\ open_trade' = <<>>
             /\ rejected' = Append(rejected, last'.result)]_vars

\* C32: the time of day of the expiry timestamp equals the configured session-close
\* time, for every valid StrategyParams.
C32_ExpiryAtSessionClose ==
    FridayCalled =>
        last.result.value % MinutesPerDay
            = params.session_close_hour * 60 + params.session_close_minute

\* C33: the true range of the first bar, which has no previous close, is undefined:
\* the undefined sentinel, not High minus Low, for every input sequence.
C33_FirstTrueRangeUndefined ==
    ComputedAll =>
        /\ last.result.tr[1] = NaN
        /\ last.result.tr[1] # last.bars[1].High - last.bars[1].Low

\* The last bar evaluated came with its Close series; that bar lies before the 252-bar
\* window is full; the last 252 closes are all equal
RankedBar == Evaluated /\ "close" \in DOMAIN last
BeforeWindowFull == Len(last.close) <= 251
ZeroTrailingRange ==
    /\ Len(last.close) >= 252
    /\ \A j \in (Len(last.close) - 251)..Len(last.close) :
          last.close[j] = last.close[Len(last.close)]

\* C34: on a bar before the 252-bar window is full, and on a bar whose trailing range
\* is exactly zero, the range rank is the undefined sentinel, not zero; evaluating the
\* bar does not raise and enters no trade: it is rejected as indicators-not-ready and
\* the engine is unchanged.
C34_WarmupNeverEnters ==
    (RankedBar /\ (BeforeWindowFull \/ ZeroTrailingRange)) =>
        /\ last.row.Price_Range_Rank = NaN
        /\ last.row.Price_Range_Rank # 0
        /\ ~IsRaise(last.result)
        /\ RejectedFor("INDICATORS_NOT_READY")
        /\ trade_counter = last.counter_before
        /\ entered_weeks = last.weeks_before

\* C34 witness: the 252nd bar of a flat Close series, its two side ranks defined, in
\* session on a free date, is rejected as not ready
C34_Witness ==
    /\ RankedBar /\ ZeroTrailingRange /\ Len(last.close) = 252
    /\ last.row.PRR_upside # NaN /\ last.row.PRR_downside # NaN
    /\ ~Fails2 /\ ~Fails3
    /\ RejectedFor("INDICATORS_NOT_READY")

\* C35: a bar is rejected as duplicate-week only if this engine already entered a
\* trade on a day of the same calendar week of the same year, that is, within the same
\* Monday-to-Sunday span of seven days.
C35_DuplicateWeekSameYear ==
    (Evaluated /\ "entries_before" \in DOMAIN last /\ RejectedFor("DUPLICATE_WEEK")) =>
        \E d \in last.entries_before : d \div 7 = (last.ts \div 1440) \div 7

\* C36: a position is not left open on a bar after its entry bar whose date is on or
\* after the expiry date, and when run has ended no position is open and every trade
\* that was entered (every id handed out) is among the closed trades.
C36_EveryEntryClosed ==
    /\ open_trade # <<>> =>
          \/ last_ts = open_trade[1].entry_timestamp
          \/ last_ts \div 1440 < open_trade[1].expiry_date \div 1440
    /\ (RunEnded /\ trade_counter > 0) =>
          /\ open_trade = <<>>
          /\ Len(trades) = trade_counter

C39_OnlyATradeChangesEngine ==
    Evaluated =>
        /\ IsRejection =>
              /\ trade_counter = last.counter_before
              /\ entered_weeks = last.weeks_before
        /\ (trade_counter # last.counter_before \/ entered_weeks # last.weeks_before) =>
              /\ last.result.kind = "Trade"
              /\ trade_counter = last.counter_before + 1
              /\ entered_weeks =
                    last.weeks_before \cup {(((last.ts \div 1440) \div 7) % 52) + 1}

\* The last call made an entry: it handed out a trade id
Entered == Evaluated /\ trade_counter > last.counter_before

====
